---------------------------- MODULE Spec2Model ----------------------------
(***************************************************************************)
(* The snake simulation of src/src/game.rs (struct Game and its methods)   *)
(* as a state machine.  A Game value is a record with the fields of the    *)
(* struct plus `halt`, the control state of the call that produced it:     *)
(* "none" (the call returned), "panic" (an unwrap() on Err or a checked    *)
(* arithmetic overflow aborted it) or "hang" (spawn_food's loop has no     *)
(* exit).                                                                  *)
(***************************************************************************)
EXTENDS Integers, Sequences, FiniteSets, TLC

VARIABLES
    game,             \* the Game value
    overflow_checks,  \* build profile: TRUE = arithmetic overflow panics, FALSE = it wraps
    op,               \* the last operation called on the Game, with its argument
    prev,             \* the Game value before the last operation
    spawns,           \* number of spawn_food calls made so far
    pres,             \* the locals of main's loop (presentation state, counters, caches)
    channel,          \* INPUT_CHANNEL: the events sent and not yet received
    canvas,           \* what the display shows
    hist              \* what the last iteration of main's loop did, and counts of iterations

vars == <<game, overflow_checks, op, prev, spawns, pres, channel, canvas, hist>>

\* the state of main.rs, which the specifications of the Game alone leave idle
mainvars == <<pres, channel, canvas, hist>>
Idle == pres = << >> /\ channel = << >> /\ canvas = << >> /\ hist = << >>

-----------------------------------------------------------------------------
(* Bounds of the model *)

\* spawn_food calls explored in one behaviour (new, reset and eating updates)
MaxSpawns == 3
\* grid sizes the constructor is applied to in SpecNew: 3..MaxWidth x 3..MaxHeight
MaxWidth == 40
MaxHeight == 22

\* iterations of spawn_food's loop followed when a respawn is checked
MaxDraws == 40

\* grids explored by Spec (width, height)
Dims == {<<3, 3>>, <<4, 1>>, <<4, 3>>, <<5, 3>>}

-----------------------------------------------------------------------------
(* Machine integers *)

U8 == 256
U16 == 65536
WordBits == 32

\* a u32 is the set of the positions of its 1 bits
Xor(a, b) == (a \ b) \cup (b \ a)
Shl(a, k) == {i + k : i \in {j \in a : j + k < WordBits}}
Shr(a, k) == {i - k : i \in {j \in a : j >= k}}

RECURSIVE RemBits(_, _, _, _, _)
RemBits(a, m, i, p, acc) ==
    IF i = WordBits THEN acc
    ELSE RemBits(a, m, i + 1, (2 * p) % m, IF i \in a THEN (acc + p) % m ELSE acc)

\* a % m for a u32 a and 0 < m < 256
RemU32(a, m) == RemBits(a, m, 0, 1 % m, 0)

\* 0xACE1
Seed == {0, 5, 6, 7, 10, 11, 13, 15}

\* wrapping_add(1) on a u32: the lowest 0 bit is set and the bits below it cleared
LowestClear(a) ==
    IF \A i \in 0..(WordBits - 1) : i \in a THEN WordBits
    ELSE CHOOSE i \in 0..(WordBits - 1) : i \notin a /\ \A j \in 0..(i - 1) : j \in a
WrappingInc(a) ==
    LET z == LowestClear(a)
    IN  IF z = WordBits THEN {} ELSE {i \in a : i > z} \cup {z}

\* the u32 of a number below 2^31
RECURSIVE BitsOf(_, _)
BitsOf(n, i) ==
    IF n = 0 THEN {}
    ELSE (IF n % 2 = 1 THEN {i} ELSE {}) \cup BitsOf(n \div 2, i + 1)
ToU32(n) == BitsOf(n, 0)

\* An f32 that is not negative is a pair <<m, e>> standing for m * 2^(-e), with
\* m of at most SignificandBits bits (or 2^SignificandBits itself); every
\* operation rounds its exact result to the nearest such value, ties to even.
SignificandBits == 24

RECURSIVE BitLen(_)
BitLen(n) == IF n = 0 THEN 0 ELSE 1 + BitLen(n \div 2)

\* q + r / d rounded to the nearest integer, ties to even (0 <= r < d)
RoundEven(q, r, d) ==
    IF 2 * r > d \/ (2 * r = d /\ q % 2 = 1) THEN q + 1 ELSE q

\* the f32 nearest to m * 2^(-e)
RoundF32(m, e) ==
    LET s == BitLen(m) - SignificandBits
    IN  IF s <= 0 THEN <<m, e>>
        ELSE <<RoundEven(m \div (2 ^ s), m % (2 ^ s), 2 ^ s), e - s>>

\* a as f32 / b as f32, for integers 0 <= a <= b that f32 holds exactly
RECURSIVE QuotientScale(_, _, _)
QuotientScale(a, b, k) ==
    IF a * (2 ^ k) >= b * (2 ^ (SignificandBits - 1)) THEN k
    ELSE QuotientScale(a, b, k + 1)
DivF32(a, b) ==
    IF a = 0 THEN <<0, 0>>
    ELSE LET k == QuotientScale(a, b, 0)
             n == a * (2 ^ k)
         IN  RoundF32(RoundEven(n \div b, n % b, b), k)

\* 1.0 - f, for f <= 1.0
OneMinusF32(f) == RoundF32((2 ^ f[2]) - f[1], f[2])

\* f * (c as f32), for an integer 0 <= c < 256; the product of a 24-bit
\* significand and c is formed in two halves to stay within 31 bits
MulF32(f, c) ==
    LET m == f[1]
        top == (m \div 256) * c + ((m % 256) * c) \div 256
        s == IF top = 0 THEN 0 ELSE 8 + BitLen(top) - SignificandBits
    IN  IF s <= 0 THEN <<m * c, f[2]>>
        ELSE LET low == (m % (2 ^ s)) * c
             IN  <<RoundEven((m \div (2 ^ s)) * c + low \div (2 ^ s),
                             low % (2 ^ s), 2 ^ s), f[2] - s>>

\* f as usize / f as u8: the fraction dropped
TruncF32(f) == IF f[2] >= 0 THEN f[1] \div (2 ^ f[2]) ELSE f[1] * (2 ^ (0 - f[2]))

GeOneF32(f) == f[2] >= 0 /\ f[1] >= 2 ^ f[2]
LtHalfF32(f) == 2 * f[1] < 2 ^ f[2]

-----------------------------------------------------------------------------
(* game.rs *)

Directions == {"Up", "Down", "Left", "Right"}

opposite(d) ==
    CASE d = "Up" -> "Down"
      [] d = "Down" -> "Up"
      [] d = "Left" -> "Right"
      [] d = "Right" -> "Left"

Position(x, y) == [x |-> x, y |-> y]

\* Vec<Position, 64>
Capacity == 64

\* x == y on Position is not derived; the code compares the two coordinates
SamePos(p, q) == p.x = q.x /\ p.y = q.y

OnSnake(snake, p) == \E i \in 1..Len(snake) : SamePos(snake[i], p)

next_random(s) ==
    LET a == Xor(s, Shl(s, 13))
        b == Xor(a, Shr(a, 17))
    IN  Xor(b, Shl(b, 5))

\* every cell of the grid holds a segment: the loop of spawn_food has no exit
GridFull(g) ==
    \A x \in 0..(g.width - 1), y \in 0..(g.height - 1) : OnSnake(g.snake, Position(x, y))

\* the first sample taken without the scan of the snake
spawn_loop_unchecked(g) ==
    LET r1 == next_random(g.rng_state)
        r2 == next_random(r1)
    IN  [g EXCEPT !.food = Position(RemU32(r1, g.width) % U8, RemU32(r2, g.height) % U8),
                  !.rng_state = r2]

RECURSIVE spawn_loop(_)
spawn_loop(g) ==
    LET r1 == next_random(g.rng_state)
        r2 == next_random(r1)
        new_food == Position(RemU32(r1, g.width) % U8, RemU32(r2, g.height) % U8)
    IN  IF ~OnSnake(g.snake, new_food)
        THEN [g EXCEPT !.food = new_food, !.rng_state = r2]
        ELSE spawn_loop([g EXCEPT !.rng_state = r2])

\* the loop given up on a full grid, the food left where it was
spawn_food_gives_up(g) ==
    IF GridFull(g) THEN g ELSE spawn_loop(g)

spawn_food(g) ==
    IF GridFull(g) THEN [g EXCEPT !.halt = "hang"] ELSE spawn_loop(g)

\* a - b on u8: panics under overflow checks, wraps without them
SubOverflows(a, b) == a < b
WrappingSub(a, b) == (a + U8 - b) % U8
WrappingAdd(a, b) == (a + b) % U8

\* the body laid out towards the right of the head instead of the left
InitialSnake_rightwards(width, height) ==
    LET start_x == width \div 2
        start_y == height \div 2
    IN  << Position(start_x, start_y),
           Position(WrappingAdd(start_x, 1), start_y),
           Position(WrappingAdd(start_x, 2), start_y) >>

\* the three pushes of new and reset
InitialSnake(width, height) ==
    LET start_x == width \div 2
        start_y == height \div 2
    IN  << Position(start_x, start_y),
           Position(WrappingSub(start_x, 1), start_y),
           Position(WrappingSub(start_x, 2), start_y) >>

InitialOverflows(width) == SubOverflows(width \div 2, 2)

Aborted(width, height) ==
    [snake |-> << >>, food |-> Position(0, 0), direction |-> "Right",
     next_direction |-> "Right", state |-> "Playing", score |-> 0,
     width |-> width, height |-> height, rng_state |-> Seed, halt |-> "panic"]

new(width, height, checks) ==
    IF checks /\ InitialOverflows(width)
    THEN Aborted(width, height)
    ELSE spawn_food(
           [snake |-> InitialSnake(width, height), food |-> Position(0, 0),
            direction |-> "Right", next_direction |-> "Right",
            state |-> "Playing", score |-> 0,
            width |-> width, height |-> height, rng_state |-> Seed,
            halt |-> "none"])

\* the generator seeded again, as in new
reset_reseeds(g, checks) ==
    IF checks /\ InitialOverflows(g.width)
    THEN [g EXCEPT !.snake = << >>, !.halt = "panic"]
    ELSE spawn_food(
           [g EXCEPT !.snake = InitialSnake(g.width, g.height),
                     !.direction = "Right", !.next_direction = "Right",
                     !.state = "Playing", !.score = 0, !.rng_state = Seed])

\* the queued direction left as it was
reset_keeps_next_direction(g, checks) ==
    IF checks /\ InitialOverflows(g.width)
    THEN [g EXCEPT !.snake = << >>, !.halt = "panic"]
    ELSE spawn_food(
           [g EXCEPT !.snake = InitialSnake(g.width, g.height),
                     !.direction = "Right",
                     !.state = "Playing", !.score = 0])

reset(g, checks) ==
    IF checks /\ InitialOverflows(g.width)
    THEN [g EXCEPT !.snake = << >>, !.halt = "panic"]
    ELSE spawn_food(
           [g EXCEPT !.snake = InitialSnake(g.width, g.height),
                     !.direction = "Right", !.next_direction = "Right",
                     !.state = "Playing", !.score = 0])

\* the reversal guard left out
set_direction_unguarded(g, direction) == [g EXCEPT !.next_direction = direction]

\* the accepted direction applied at once instead of queued
set_direction_immediate(g, direction) ==
    IF direction # opposite(g.direction)
    THEN [g EXCEPT !.next_direction = direction, !.direction = direction]
    ELSE g

set_direction(g, direction) ==
    IF direction # opposite(g.direction)
    THEN [g EXCEPT !.next_direction = direction]
    ELSE g

\* a step to the right that passes over one cell
NewHead_leaps(head, direction) ==
    CASE direction = "Up" -> Position(head.x, WrappingSub(head.y, 1))
      [] direction = "Down" -> Position(head.x, WrappingAdd(head.y, 1))
      [] direction = "Left" -> Position(WrappingSub(head.x, 1), head.y)
      [] direction = "Right" -> Position(WrappingAdd(head.x, 2), head.y)

NewHead(head, direction) ==
    CASE direction = "Up" -> Position(head.x, WrappingSub(head.y, 1))
      [] direction = "Down" -> Position(head.x, WrappingAdd(head.y, 1))
      [] direction = "Left" -> Position(WrappingSub(head.x, 1), head.y)
      [] direction = "Right" -> Position(WrappingAdd(head.x, 1), head.y)

\* > in place of >=
HitsWall_off_by_one(g, p) == p.x > g.width \/ p.y > g.height

\* the right-hand wall left out of the check
HitsWall_open_right(g, p) == p.y >= g.height

HitsWall(g, p) == p.x >= g.width \/ p.y >= g.height

\* the scan of the snake left out
HitsSelf_never(snake, p) == FALSE

\* the tail, about to move away, left out of the scan
HitsSelf_without_tail(snake, p) == OnSnake(SubSeq(snake, 1, Len(snake) - 1), p)

\* the loop over &self.snake: every segment, the last one included
HitsSelf(snake, p) == OnSnake(snake, p)

Front(s) == SubSeq(s, 1, Len(s) - 1)

\* the state check left out
NotPlaying_never(g) == FALSE

\* the early return of update
NotPlaying(g) == g.state # "Playing"

\* the score raised by every move, not only by the eaten food
update_scores_moves(g, checks) ==
    IF NotPlaying(g) THEN g
    ELSE
      LET d == [g EXCEPT !.direction = g.next_direction]
          new_head == NewHead(d.snake[1], d.direction)
          ate_food == SamePos(new_head, d.food)
          grown == [d EXCEPT !.snake = <<new_head>> \o d.snake,
                             !.score = (d.score + 10) % U16]
      IN  IF HitsWall(d, new_head) THEN [d EXCEPT !.state = "GameOver"]
          ELSE IF HitsSelf(d.snake, new_head) THEN [d EXCEPT !.state = "GameOver"]
          ELSE IF Len(d.snake) = Capacity THEN [d EXCEPT !.halt = "panic"]
          ELSE IF ate_food
               THEN spawn_food(grown)
               ELSE [grown EXCEPT !.snake = Front(grown.snake)]

update(g, checks) ==
    IF NotPlaying(g) THEN g
    ELSE
      LET d == [g EXCEPT !.direction = g.next_direction]
          new_head == NewHead(d.snake[1], d.direction)
          ate_food == SamePos(new_head, d.food)
          grown == [d EXCEPT !.snake = <<new_head>> \o d.snake]
      IN  IF HitsWall(d, new_head) THEN [d EXCEPT !.state = "GameOver"]
          ELSE IF HitsSelf(d.snake, new_head) THEN [d EXCEPT !.state = "GameOver"]
          ELSE IF Len(d.snake) = Capacity THEN [d EXCEPT !.halt = "panic"]
          ELSE IF ate_food
               THEN IF d.score + 10 >= U16 /\ checks
                    THEN [grown EXCEPT !.halt = "panic"]
                    ELSE spawn_food([grown EXCEPT !.score = (d.score + 10) % U16])
               ELSE [grown EXCEPT !.snake = Front(grown.snake)]

-----------------------------------------------------------------------------
(* The Game driven by any caller *)

Running == game.halt = "none"

\* update() takes the branch that calls spawn_food
Eats(g) ==
    /\ g.state = "Playing"
    /\ LET h == NewHead(g.snake[1], g.next_direction)
       IN  ~HitsWall(g, h) /\ ~OnSnake(g.snake, h) /\ SamePos(h, g.food)

Init ==
    /\ overflow_checks \in BOOLEAN
    /\ \E dim \in Dims :
         /\ game = new(dim[1], dim[2], overflow_checks)
         /\ op = [name |-> "new", width |-> dim[1], height |-> dim[2]]
    /\ prev = game
    /\ spawns = 1
    /\ Idle

Reset ==
    /\ Running
    /\ spawns < MaxSpawns
    /\ game' = reset(game, overflow_checks)
    /\ op' = [name |-> "reset"]
    /\ prev' = game
    /\ spawns' = spawns + 1
    /\ UNCHANGED overflow_checks
    /\ UNCHANGED mainvars

SetDirection ==
    /\ Running
    /\ \E d \in Directions :
         /\ game' = set_direction(game, d)
         /\ op' = [name |-> "set_direction", direction |-> d]
    /\ prev' = game
    /\ UNCHANGED <<overflow_checks, spawns>>
    /\ UNCHANGED mainvars

Update ==
    /\ Running
    /\ Eats(game) => spawns < MaxSpawns
    /\ game' = update(game, overflow_checks)
    /\ op' = [name |-> "update"]
    /\ prev' = game
    /\ spawns' = IF Eats(game) THEN spawns + 1 ELSE spawns
    /\ UNCHANGED overflow_checks
    /\ UNCHANGED mainvars

Next == Reset \/ SetDirection \/ Update

Spec == Init /\ [][Next]_vars

-----------------------------------------------------------------------------
(* Game::new on its own, applied to every grid 3..MaxWidth x 3..MaxHeight *)

\* no Game has been constructed yet
NoGame ==
    [snake |-> << >>, food |-> Position(0, 0), direction |-> "Right",
     next_direction |-> "Right", state |-> "Playing", score |-> 0,
     width |-> 0, height |-> 0, rng_state |-> Seed, halt |-> "unbuilt"]

InitNew ==
    /\ overflow_checks \in BOOLEAN
    /\ \E w \in 3..MaxWidth, h \in 3..MaxHeight :
         op = [name |-> "args", width |-> w, height |-> h]
    /\ game = NoGame
    /\ prev = NoGame
    /\ spawns = 0
    /\ Idle

Construct ==
    /\ op.name = "args"
    /\ game' = new(op.width, op.height, overflow_checks)
    /\ op' = [op EXCEPT !.name = "new"]
    /\ prev' = game
    /\ spawns' = spawns + 1
    /\ UNCHANGED overflow_checks
    /\ UNCHANGED mainvars

SpecNew == InitNew /\ [][Construct]_vars

-----------------------------------------------------------------------------
(* The Game driven around a fixed closed tour of the grid: before every     *)
(* update the caller steers the head to the next cell of the tour, so the   *)
(* snake meets neither a wall nor itself and eats every food in its way.    *)

CycleGrid == <<9, 8>>

\* the tour: row 0 rightwards, then rows alternately leftwards and
\* rightwards over columns 1.., the last row leftwards to column 0, column 0
\* upwards
CycleDir(p, w, h) ==
    IF p.x = 0 THEN (IF p.y > 0 THEN "Up" ELSE "Right")
    ELSE IF p.y % 2 = 0 THEN (IF p.x < w - 1 THEN "Right" ELSE "Down")
    ELSE IF p.y = h - 1 THEN "Left"
    ELSE IF p.x > 1 THEN "Left" ELSE "Down"

Steer(g) == CycleDir(g.snake[1], g.width, g.height)

InitCycle ==
    /\ overflow_checks \in BOOLEAN
    /\ game = new(CycleGrid[1], CycleGrid[2], overflow_checks)
    /\ op = [name |-> "new", width |-> CycleGrid[1], height |-> CycleGrid[2]]
    /\ prev = game
    /\ spawns = 1
    /\ Idle

CycleSetDirection ==
    /\ Running
    /\ game.state = "Playing"
    /\ Steer(game) # game.next_direction
    /\ game' = set_direction(game, Steer(game))
    /\ op' = [name |-> "set_direction", direction |-> Steer(game)]
    /\ prev' = game
    /\ UNCHANGED <<overflow_checks, spawns>>
    /\ UNCHANGED mainvars

CycleUpdate ==
    /\ Running
    /\ game.state = "Playing"
    /\ Steer(game) = game.next_direction
    /\ game' = update(game, overflow_checks)
    /\ op' = [name |-> "update"]
    /\ prev' = game
    /\ spawns' = IF Eats(game) THEN spawns + 1 ELSE spawns
    /\ UNCHANGED overflow_checks
    /\ UNCHANGED mainvars

NextCycle == CycleSetDirection \/ CycleUpdate

SpecCycle == InitCycle /\ [][NextCycle]_vars

-----------------------------------------------------------------------------
(* main.rs: the presentation loop of main and the input task feeding it.   *)
(* The loop body runs from the drain of INPUT_CHANNEL to the increment of   *)
(* frame_counter without awaiting, so one iteration is one step; the input  *)
(* task sends while the loop sleeps in Timer::after_millis.                 *)

\* the display in pixels, scaled down from 240 x 135 to keep the grid small
DISPLAY_WIDTH == 30
DISPLAY_HEIGHT == 18
CELL_SIZE == 6
GRID_WIDTH == DISPLAY_WIDTH \div CELL_SIZE
GRID_HEIGHT == DISPLAY_HEIGHT \div CELL_SIZE

\* events the input task sends in one behaviour, events it queues between two
\* iterations of the loop, and iterations of the loop followed
MaxEvents == 4
MaxQueued == 2
MaxIterations == 22
\* iterations left before frame_counter wraps where SpecWrap starts
WrapLead == 16
\* SpecLive: iterations played before it starts, events sent after that, and
\* iterations followed in all
LeadFrames == 20
MaxLiveEvents == 3
MaxLiveFrames == 175
\* SpecChannel: events the input task sends and iterations of the loop
MaxSent == 12
MaxDrains == 3
\* button presses and iterations of the loop followed with the buttons alone
MaxPresses == 3
MaxFrames == 172

ChannelCapacity == 10
TickDivisor == 10
death_animation_duration == 60
blink_duration == 90
total_blinks == 12
blink_interval == blink_duration \div (total_blinks * 2)

\* the field snake_game.game_over that main reads; struct Game of game.rs has
\* no such field, its state is GameOver when the game is over
game_over(g) == g.state = "GameOver"

InputEvent ==
    [type : {"DirectionChange"}, direction : Directions]
        \cup {[type |-> "ButtonA"], [type |-> "ButtonB"]}

\* Rgb565::new masks the channels to 5, 6 and 5 bits
Rgb565(r, g, b) == [r |-> r % 32, g |-> g % 64, b |-> b % 32]
BLACK == Rgb565(0, 0, 0)
GREEN == Rgb565(0, 63, 0)
RED == Rgb565(31, 0, 0)

\* The display: the colour of every cell that has a pixel on it, whether the
\* border is drawn, and the text drawn over it.
CanvasCells ==
    [x : {x \in 0..(U8 - 1) : x * CELL_SIZE + 1 < DISPLAY_WIDTH},
     y : {y \in 0..(U8 - 1) : y * CELL_SIZE + 1 < DISPLAY_HEIGHT}]

\* display.clear(Rgb565::BLACK)
clear == [cells |-> [c \in CanvasCells |-> BLACK], border |-> FALSE, text |-> <<"none">>]
draw_border(cv) == [cv EXCEPT !.border = TRUE]
show_start_screen(cv) == [cv EXCEPT !.text = <<"start">>]
show_pause_screen(cv, score) == [cv EXCEPT !.text = <<"pause", score>>]
show_game_over_screen(cv, score) == [cv EXCEPT !.text = <<"game over", score>>]

\* the rectangle of cell p filled with one colour; the display clips what
\* lies outside it
fill_cell(cv, p, colour) ==
    IF Position(p.x, p.y) \in CanvasCells
    THEN [cv EXCEPT !.cells[Position(p.x, p.y)] = colour]
    ELSE cv

RECURSIVE fill_cells(_, _, _)
fill_cells(cv, segments, colour) ==
    IF segments = << >> THEN cv
    ELSE fill_cells(fill_cell(cv, Head(segments), colour), Tail(segments), colour)

\* The state of the loop is m = [game, pres, canvas]: snake_game, the other
\* locals of main and the display.

\* InputEvent::DirectionChange
\* the direction taken in every state
direction_change_always(m, direction) ==
    [m EXCEPT !.game = set_direction(m.game, direction)]

\* InputEvent::DirectionChange
direction_change(m, direction) ==
    IF m.pres.current_state = "Playing"
    THEN [m EXCEPT !.game = set_direction(m.game, direction)]
    ELSE m

\* the arm of ButtonA that does nothing left out: the reset made in every state
button_a_always(m, checks) ==
    LET g == reset(m.game, checks)
    IN  IF g.halt # "none" THEN [m EXCEPT !.game = g]
        ELSE [game |-> g,
              canvas |-> show_start_screen(draw_border(clear)),
              pres |-> [m.pres EXCEPT !.current_state = "WaitingStart",
                                      !.previous_snake = g.snake,
                                      !.previous_food = g.food]]

\* the return to the start screen without the reset of the Simulation
button_a_keeps_game(m, checks) ==
    IF m.pres.current_state = "WaitingStart" THEN m
    ELSE [game |-> m.game,
          canvas |-> show_start_screen(draw_border(clear)),
          pres |-> [m.pres EXCEPT !.current_state = "WaitingStart",
                                  !.previous_snake = m.game.snake,
                                  !.previous_food = m.game.food]]

\* InputEvent::ButtonA
button_a(m, checks) ==
    IF m.pres.current_state = "WaitingStart" THEN m
    ELSE LET g == reset(m.game, checks)
         IN  IF g.halt # "none" THEN [m EXCEPT !.game = g]
             ELSE [game |-> g,
                   canvas |-> show_start_screen(draw_border(clear)),
                   pres |-> [m.pres EXCEPT !.current_state = "WaitingStart",
                                           !.previous_snake = g.snake,
                                           !.previous_food = g.food]]

\* the resume that keeps the caches of the last frame rendered
button_b_keeps_cache(m) ==
    CASE m.pres.current_state = "WaitingStart" ->
           [m EXCEPT !.pres.current_state = "Playing",
                     !.canvas = draw_border(clear)]
      [] m.pres.current_state = "Playing" ->
           [m EXCEPT !.pres.current_state = "Paused",
                     !.canvas = show_pause_screen(draw_border(clear), m.game.score)]
      [] m.pres.current_state = "Paused" ->
           [m EXCEPT !.pres.current_state = "Playing",
                     !.canvas = draw_border(clear)]
      [] OTHER -> m

\* ButtonB starting play again from the death animation as well
button_b_restarts(m) ==
    CASE m.pres.current_state \in {"WaitingStart", "DeathAnimation"} ->
           [m EXCEPT !.pres.current_state = "Playing",
                     !.canvas = draw_border(clear)]
      [] m.pres.current_state = "Playing" ->
           [m EXCEPT !.pres.current_state = "Paused",
                     !.canvas = show_pause_screen(draw_border(clear), m.game.score)]
      [] m.pres.current_state = "Paused" ->
           [m EXCEPT !.pres.current_state = "Playing",
                     !.canvas = draw_border(clear),
                     !.pres.previous_snake = << >>,
                     !.pres.previous_food = Position(255, 255)]
      [] OTHER -> m

\* InputEvent::ButtonB
button_b(m) ==
    CASE m.pres.current_state = "WaitingStart" ->
           [m EXCEPT !.pres.current_state = "Playing",
                     !.canvas = draw_border(clear)]
      [] m.pres.current_state = "Playing" ->
           [m EXCEPT !.pres.current_state = "Paused",
                     !.canvas = show_pause_screen(draw_border(clear), m.game.score)]
      [] m.pres.current_state = "Paused" ->
           [m EXCEPT !.pres.current_state = "Playing",
                     !.canvas = draw_border(clear),
                     !.pres.previous_snake = << >>,
                     !.pres.previous_food = Position(255, 255)]
      [] OTHER -> m

\* one event received
process(m, event, checks) ==
    CASE event.type = "DirectionChange" -> direction_change(m, event.direction)
      [] event.type = "ButtonA" -> button_a(m, checks)
      [] event.type = "ButtonB" -> button_b(m)

\* a drain that takes one event and leaves the rest for the next iteration
receive_first(m, queue, checks) ==
    IF queue = << >> \/ m.game.halt # "none" THEN m
    ELSE process(m, Head(queue), checks)

\* while let Ok(event) = receiver.try_receive(): every queued event, in order
RECURSIVE receive_all(_, _, _)
receive_all(m, queue, checks) ==
    IF queue = << >> \/ m.game.halt # "none" THEN m
    ELSE receive_all(process(m, Head(queue), checks), Tail(queue), checks)

\* the old snake cells left painted
dirty_rectangles_keeps_old(cv, previous_snake, previous_food, g) ==
    fill_cell(fill_cells(cv, g.snake, GREEN), g.food, RED)

\* the dirty-rectangle rendering of a tick
dirty_rectangles(cv, previous_snake, previous_food, g) ==
    LET left == SelectSeq(previous_snake, LAMBDA old : ~OnSnake(g.snake, old))
        erased == fill_cells(cv, left, BLACK)
        unfed == IF previous_food.x # g.food.x \/ previous_food.y # g.food.y
                 THEN fill_cell(erased, previous_food, BLACK)
                 ELSE erased
    IN  fill_cell(fill_cells(unfed, g.snake, GREEN), g.food, RED)

TickDue(m) ==
    m.pres.current_state = "Playing" /\ RemU32(m.pres.frame_counter, TickDivisor) = 0

\* the check of game_over left out: every tick renders
tick_never_dies(m, checks) ==
    IF ~TickDue(m) THEN m
    ELSE LET g == update(m.game, checks)
         IN  IF g.halt # "none" THEN [m EXCEPT !.game = g]
             ELSE [m EXCEPT !.game = g,
                            !.canvas = dirty_rectangles(m.canvas, m.pres.previous_snake,
                                                        m.pres.previous_food, g),
                            !.pres.previous_snake = g.snake,
                            !.pres.previous_food = g.food]

\* the tick: update() every TickDivisor-th frame while Playing, then either the
\* entry into the death animation or the rendering
tick(m, checks) ==
    IF ~TickDue(m) THEN m
    ELSE LET g == update(m.game, checks)
         IN  IF g.halt # "none" THEN [m EXCEPT !.game = g]
             ELSE IF game_over(g)
                  THEN [m EXCEPT !.game = g,
                                 !.pres.current_state = "DeathAnimation",
                                 !.pres.death_animation_frame = 0,
                                 !.pres.death_snake = g.snake]
                  ELSE [m EXCEPT !.game = g,
                                 !.canvas = dirty_rectangles(m.canvas, m.pres.previous_snake,
                                                             m.pres.previous_food, g),
                                 !.pres.previous_snake = g.snake,
                                 !.pres.previous_food = g.food]

progress(frame) == DivF32(frame, death_animation_duration)
\* the count rounded to the nearest integer
segments_to_show_rounded(frame, len) ==
    ((death_animation_duration - frame) * len + death_animation_duration \div 2)
        \div death_animation_duration

segments_to_show(frame, len) == TruncF32(MulF32(OneMinusF32(progress(frame)), len))

\* the segments with i < segments_to_show: those drawn, then kept as previous_snake
death_shown(death_snake, frame) ==
    SubSeq(death_snake, 1, segments_to_show(frame, Len(death_snake)))
death_color(frame) ==
    LET green_intensity == TruncF32(MulF32(OneMinusF32(progress(frame)), 255))
        brown_intensity == TruncF32(MulF32(progress(frame), 139))
    IN  IF LtHalfF32(progress(frame))
        THEN Rgb565(brown_intensity \div 8, green_intensity \div 4, 0)
        ELSE Rgb565(17, 9, 0)

\* the animation ended only when progress is above 1.0
death_animation_one_longer(m) ==
    IF m.pres.current_state # "DeathAnimation" THEN m
    ELSE LET frame == m.pres.death_animation_frame + 1
             shown == death_shown(m.pres.death_snake, frame)
         IN  IF frame > death_animation_duration
             THEN [m EXCEPT !.pres.death_animation_frame = frame,
                            !.pres.current_state = "BlinkingGameOver",
                            !.pres.blink_frame = 0,
                            !.canvas = show_game_over_screen(draw_border(clear), m.game.score)]
             ELSE [m EXCEPT !.pres.death_animation_frame = frame,
                            !.canvas = fill_cells(fill_cells(m.canvas, m.pres.previous_snake, BLACK),
                                                  shown, death_color(frame)),
                            !.pres.previous_snake = shown]

\* the death animation: one frame of it in every iteration
death_animation(m) ==
    IF m.pres.current_state # "DeathAnimation" THEN m
    ELSE LET frame == m.pres.death_animation_frame + 1
             shown == death_shown(m.pres.death_snake, frame)
         IN  IF GeOneF32(progress(frame))
             THEN [m EXCEPT !.pres.death_animation_frame = frame,
                            !.pres.current_state = "BlinkingGameOver",
                            !.pres.blink_frame = 0,
                            !.canvas = show_game_over_screen(draw_border(clear), m.game.score)]
             ELSE [m EXCEPT !.pres.death_animation_frame = frame,
                            !.canvas = fill_cells(fill_cells(m.canvas, m.pres.previous_snake, BLACK),
                                                  shown, death_color(frame)),
                            !.pres.previous_snake = shown]

is_visible(frame) == (frame \div blink_interval) % 2 = 0

\* the blinking that never ends
blinking_endless(m) ==
    IF m.pres.current_state # "BlinkingGameOver" THEN m
    ELSE LET frame == m.pres.blink_frame + 1
         IN  [m EXCEPT !.pres.blink_frame = frame % blink_duration,
                       !.canvas = IF is_visible(frame)
                                  THEN show_game_over_screen(draw_border(clear), m.game.score)
                                  ELSE draw_border(clear)]

\* the blinking of the game-over screen: one frame of it in every iteration
blinking(m) ==
    IF m.pres.current_state # "BlinkingGameOver" THEN m
    ELSE LET frame == m.pres.blink_frame + 1
         IN  IF frame >= blink_duration
             THEN [m EXCEPT !.pres.blink_frame = frame,
                            !.pres.current_state = "GameOver"]
             ELSE [m EXCEPT !.pres.blink_frame = frame,
                            !.canvas = IF is_visible(frame)
                                       THEN show_game_over_screen(draw_border(clear), m.game.score)
                                       ELSE draw_border(clear)]

Halted(m) == m.game.halt # "none"

\* the stages of one iteration of the loop; a call that does not return
\* (panic or endless loop) ends the iteration where it is
Drained(m, queue, checks) == receive_all(m, queue, checks)
Ticked(a, checks) == IF Halted(a) THEN a ELSE tick(a, checks)
Animated(b) == IF Halted(b) THEN b ELSE death_animation(b)
Blinked(c) == IF Halted(c) THEN c ELSE blinking(c)
Counted(d) == IF Halted(d) THEN d ELSE [d EXCEPT !.pres.frame_counter = WrappingInc(@)]

iteration(m, queue, checks) ==
    Counted(Blinked(Animated(Ticked(Drained(m, queue, checks), checks))))

\* what each event of the drain found and left, in order
RECURSIVE Steps(_, _, _)
Steps(m, queue, checks) ==
    IF queue = << >> \/ Halted(m) THEN << >>
    ELSE LET after == process(m, Head(queue), checks)
         IN  <<[event |-> Head(queue),
                before |-> [game |-> m.game, pres |-> m.pres],
                after |-> [game |-> after.game, pres |-> after.pres]]>>
                 \o Steps(after, Tail(queue), checks)

Machine == [game |-> game, pres |-> pres, canvas |-> canvas]

InDeath(state) == state \in {"DeathAnimation", "BlinkingGameOver"}

\* The record of an iteration with stages a (after the drain), b (after the
\* tick), c (after the death animation) and d (after the blinking), and the
\* counts kept since the tick that ended the game: iterations, runs of the
\* death-animation and blinking blocks, and half-cycles of the blinking (runs
\* of frames drawn alike); since_update counts the iterations from the last
\* one that called update() (0: none yet) and gap is that count as the last
\* update() found it.
Record(h, m, queue, checks, a, b, c, d) ==
    LET fatal == a.pres.current_state = "Playing" /\ b.pres.current_state = "DeathAnimation"
        counting == fatal \/ InDeath(a.pres.current_state)
        drew == c.pres.current_state = "BlinkingGameOver" /\ d.pres.current_state = "BlinkingGameOver"
        entered == b.pres.current_state = "DeathAnimation" /\ c.pres.current_state = "BlinkingGameOver"
        look == IF is_visible(d.pres.blink_frame) THEN "visible" ELSE "hidden"
        last == IF entered THEN "none" ELSE h.last_shown
        halves == IF entered THEN 0 ELSE h.half_cycles
        due == ~Halted(a) /\ TickDue(a)
    IN  [sent |-> h.sent,
         iterations |-> h.iterations + 1,
         steps |-> Steps(m, queue, checks),
         ticked |-> [update |-> ~Halted(a) /\ TickDue(a),
                     rendered |-> ~Halted(a) /\ TickDue(a) /\ ~Halted(b)
                                      /\ b.pres.current_state = "Playing",
                     game |-> a.game,
                     drained |-> a.pres.current_state,
                     frame_counter |-> a.pres.frame_counter,
                     current_state |-> b.pres.current_state,
                     death_animation_frame |-> b.pres.death_animation_frame,
                     death_snake |-> b.pres.death_snake],
         since_update |-> IF due THEN 1
                          ELSE IF h.since_update = 0 THEN 0 ELSE h.since_update + 1,
         gap |-> IF due THEN h.since_update ELSE h.gap,
         since_death |-> IF fatal THEN 1
                         ELSE IF counting THEN h.since_death + 1
                         ELSE IF d.pres.current_state = "GameOver" THEN h.since_death
                         ELSE 0,
         death_runs |-> IF b.pres.current_state = "DeathAnimation"
                        THEN (IF fatal THEN 0 ELSE h.death_runs) + 1
                        ELSE IF InDeath(d.pres.current_state) \/ d.pres.current_state = "GameOver"
                             THEN h.death_runs ELSE 0,
         blink_runs |-> IF c.pres.current_state = "BlinkingGameOver"
                        THEN (IF entered THEN 0 ELSE h.blink_runs) + 1
                        ELSE IF d.pres.current_state = "GameOver" THEN h.blink_runs ELSE 0,
         first_shown |-> IF drew /\ last = "none" THEN look
                         ELSE IF entered \/ ~(InDeath(d.pres.current_state) \/ d.pres.current_state = "GameOver")
                              THEN "none" ELSE h.first_shown,
         last_shown |-> IF drew THEN look
                        ELSE IF d.pres.current_state \in {"BlinkingGameOver", "GameOver"} THEN last
                        ELSE "none",
         half_cycles |-> IF drew /\ look # last THEN halves + 1
                         ELSE IF d.pres.current_state \in {"BlinkingGameOver", "GameOver"} THEN halves
                         ELSE 0]

NoRecord ==
    [sent |-> 0, iterations |-> 0, steps |-> << >>,
     ticked |-> [update |-> FALSE, rendered |-> FALSE, game |-> game,
                 drained |-> "WaitingStart", frame_counter |-> pres.frame_counter,
                 current_state |-> "WaitingStart",
                 death_animation_frame |-> 0, death_snake |-> << >>],
     since_update |-> 0, gap |-> 0,
     since_death |-> 0, death_runs |-> 0, blink_runs |-> 0,
     first_shown |-> "none", last_shown |-> "none", half_cycles |-> 0]

\* the locals of main before the loop
Locals(g, frame_counter) ==
    [current_state |-> "WaitingStart",
     frame_counter |-> frame_counter,
     previous_snake |-> g.snake,
     previous_food |-> g.food,
     death_animation_frame |-> 0,
     death_snake |-> << >>,
     blink_frame |-> 0]

\* main before the first iteration of the loop, with frame_counter given
Started(frame_counter) ==
    /\ overflow_checks \in BOOLEAN
    /\ game = new(GRID_WIDTH, GRID_HEIGHT, overflow_checks)
    /\ op = [name |-> "new", width |-> GRID_WIDTH, height |-> GRID_HEIGHT]
    /\ prev = game
    /\ spawns = 1
    /\ pres = Locals(game, frame_counter)
    /\ channel = << >>
    /\ canvas = clear
    /\ hist = NoRecord

InitMain == Started(ToU32(0))

\* the input task sends one event
SendEvent(event) ==
    /\ Running
    /\ Len(channel) < MaxQueued
    /\ Len(channel) < ChannelCapacity
    /\ channel' = Append(channel, event)
    /\ hist' = [hist EXCEPT !.sent = @ + 1]
    /\ UNCHANGED <<game, overflow_checks, op, prev, spawns, pres, canvas>>

\* one iteration of the loop
Loop ==
    /\ Running
    /\ \E a \in {Drained(Machine, channel, overflow_checks)} :
       \E b \in {Ticked(a, overflow_checks)} :
       \E c \in {Animated(b)} :
       \E d \in {Blinked(c)} :
       \E e \in {Counted(d)} :
           /\ game' = e.game
           /\ pres' = e.pres
           /\ canvas' = e.canvas
           /\ hist' = Record(hist, Machine, channel, overflow_checks, a, b, c, d)
    /\ channel' = << >>
    /\ op' = [name |-> "iterate", iteration |-> hist.iterations + 1]
    /\ prev' = game
    /\ UNCHANGED <<overflow_checks, spawns>>

\* The loop played: any event at any time, for MaxIterations iterations.
Send ==
    /\ hist.sent < MaxEvents
    /\ \E event \in InputEvent : SendEvent(event)

Iterate ==
    /\ hist.iterations < MaxIterations
    /\ Loop

NextMain == Send \/ Iterate

SpecMain == InitMain /\ [][NextMain]_vars

\* The loop played when frame_counter is about to wrap: main has waited for
\* the start, untouched, until frame_counter is WrapLead short of 2^32.
FromTop(k) == {i \in 0..(WordBits - 1) : i \notin ToU32(k - 1)}

InitWrap == Started(FromTop(WrapLead))

SpecWrap == InitWrap /\ [][NextMain]_vars

\* The loop with the buttons alone: the joystick is never moved, so a game
\* that is not paused or reset ends at the right wall, and the loop is
\* followed long enough for the game-over screen to be reached and left.
Press ==
    /\ hist.sent < MaxPresses
    /\ \E event \in {[type |-> "ButtonA"], [type |-> "ButtonB"]} : SendEvent(event)

Frame ==
    /\ hist.iterations < MaxFrames
    /\ Loop

NextButtons == Press \/ Frame

SpecButtons == InitMain /\ [][NextButtons]_vars

-----------------------------------------------------------------------------
(* The loop from a game under way to the game-over screen and after it,    *)
(* with the fairness of the loop: Timer::after_millis(30) always expires   *)
(* and nothing else in the body waits, so an iteration that can run does.  *)

\* The player starts the game with ButtonB before the first iteration and
\* leaves the controls alone for LeadFrames iterations; any event after that.
Offered ==
    IF hist.iterations = 0 THEN {[type |-> "ButtonB"]}
    ELSE IF hist.iterations < LeadFrames THEN {}
    ELSE InputEvent

LiveSend ==
    /\ hist.sent < MaxLiveEvents
    /\ channel = << >>
    /\ \E event \in Offered : SendEvent(event)

LiveFrame ==
    /\ hist.iterations < MaxLiveFrames
    /\ hist.sent > 0
    /\ Loop

NextLive == LiveSend \/ LiveFrame

\* An iteration of the loop completes: the step of NextLive that numbers the
\* iteration is the LiveFrame step, and it can be taken whenever LiveFrame can
\* (the body of the loop is defined on every running state).
Completes ==
    /\ hist.iterations < MaxLiveFrames
    /\ hist.sent > 0
    /\ Running
    /\ op' = [name |-> "iterate", iteration |-> hist.iterations + 1]

SpecLive == InitMain /\ [][NextLive]_vars /\ WF_op(Completes)

-----------------------------------------------------------------------------
(* INPUT_CHANNEL between the input task and the loop of main.  The input   *)
(* task awaits sender.send(event): it waits there while the channel is     *)
(* full.  The loop empties the channel with try_receive at the start of    *)
(* every iteration.  Here hist holds, beside the record of the loop (rec), *)
(* the events the input task has sent, the one it is waiting to put in the *)
(* channel, and the events the loop has processed.                         *)

\* the events the input task sends, in a fixed rotation entered anywhere
Rotation ==
    <<[type |-> "ButtonB"],
      [type |-> "DirectionChange", direction |-> "Up"],
      [type |-> "DirectionChange", direction |-> "Left"],
      [type |-> "ButtonA"],
      [type |-> "DirectionChange", direction |-> "Down"],
      [type |-> "DirectionChange", direction |-> "Right"]>>
EventAt(k) == Rotation[(k % Len(Rotation)) + 1]

\* a send that gives the event up when the channel is full
send_drops(queue, event) ==
    IF Len(queue) < ChannelCapacity
    THEN [channel |-> Append(queue, event), pending |-> << >>]
    ELSE [channel |-> queue, pending |-> << >>]

\* sender.send(event).await: the event enters the channel, or the task waits
\* with it while the channel is full
send(queue, event) ==
    IF Len(queue) < ChannelCapacity
    THEN [channel |-> Append(queue, event), pending |-> << >>]
    ELSE [channel |-> queue, pending |-> <<event>>]

\* the events a drain processes, in the order it processes them
Processed(m, queue, checks) ==
    LET steps == Steps(m, queue, checks)
    IN  [i \in 1..Len(steps) |-> steps[i].event]

InitChannel ==
    /\ overflow_checks \in BOOLEAN
    /\ game = new(GRID_WIDTH, GRID_HEIGHT, overflow_checks)
    /\ op = [name |-> "new", width |-> GRID_WIDTH, height |-> GRID_HEIGHT]
    /\ prev = game
    /\ spawns = 1
    /\ pres = Locals(game, ToU32(0))
    /\ channel = << >>
    /\ canvas = clear
    /\ \E first \in 0..(Len(Rotation) - 1) :
         hist = [rec |-> NoRecord, first |-> first, sent |-> << >>,
                 pending |-> << >>, waits |-> 0, processed |-> << >>]

\* the input task reaches a send
ChannelSend ==
    /\ Running
    /\ hist.pending = << >>
    /\ Len(hist.sent) < MaxSent
    /\ \E event \in {EventAt(hist.first + Len(hist.sent))} :
       \E s \in {send(channel, event)} :
         /\ channel' = s.channel
         /\ hist' = [hist EXCEPT !.sent = Append(@, event),
                                 !.pending = s.pending,
                                 !.waits = IF s.pending # << >> THEN @ + 1 ELSE @]
    /\ UNCHANGED <<game, overflow_checks, op, prev, spawns, pres, canvas>>

\* the send that waited completes once the channel has room
ChannelResume ==
    /\ Running
    /\ hist.pending # << >>
    /\ Len(channel) < ChannelCapacity
    /\ channel' = Append(channel, hist.pending[1])
    /\ hist' = [hist EXCEPT !.pending = << >>]
    /\ UNCHANGED <<game, overflow_checks, op, prev, spawns, pres, canvas>>

\* one iteration of the loop of main
ChannelDrain ==
    /\ Running
    /\ hist.rec.iterations < MaxDrains
    /\ \E a \in {Drained(Machine, channel, overflow_checks)} :
       \E b \in {Ticked(a, overflow_checks)} :
       \E c \in {Animated(b)} :
       \E d \in {Blinked(c)} :
       \E e \in {Counted(d)} :
           /\ game' = e.game
           /\ pres' = e.pres
           /\ canvas' = e.canvas
           /\ hist' = [hist EXCEPT
                         !.rec = Record(hist.rec, Machine, channel, overflow_checks, a, b, c, d),
                         !.processed = @ \o Processed(Machine, channel, overflow_checks)]
    /\ channel' = << >>
    /\ op' = [name |-> "iterate", iteration |-> hist.rec.iterations + 1]
    /\ prev' = game
    /\ UNCHANGED <<overflow_checks, spawns>>

NextChannel == ChannelSend \/ ChannelResume \/ ChannelDrain

SpecChannel == InitChannel /\ [][NextChannel]_vars

-----------------------------------------------------------------------------
(* engine.rs: GameEngine::run, the loop generic over input, platform and    *)
(* renderer.  One iteration is one step; its inputs are what the three      *)
(* capabilities return: the result of read_input, the result of render_game *)
(* and the milliseconds that pass between the two reads of the clock.       *)
(* Here pres holds the fields of the GameEngine beside the Game, and hist   *)
(* the clock and what the last iteration did.                               *)

\* iterations of run followed
MaxRuns == 3
\* the grid the engine is constructed on, and the frame rates it is set to
EngineGrid == <<4, 3>>
FrameRates == {20}
\* milliseconds before the clock wraps where a run may start
ClockLeads == {1, 150}

\* traits.rs InputEvent, and the results of read_input and render_game
EngineEvent ==
    [type : {"Direction"}, direction : Directions]
        \cup {[type |-> "ButtonA"], [type |-> "ButtonB"], [type |-> "None"]}
InputResult == [ok : {TRUE}, event : EngineEvent] \cup {[ok |-> FALSE]}
RenderResult == {[ok |-> TRUE], [ok |-> FALSE]}

\* a u32 of milliseconds as two halves of 16 bits, the high one first
Half == 2 ^ (WordBits \div 2)
Millis(n) == [hi |-> n \div Half, lo |-> n % Half]
BeforeWrap(k) == [hi |-> Half - 1, lo |-> Half - k]
LtMillis(a, b) == a.hi < b.hi \/ (a.hi = b.hi /\ a.lo < b.lo)
wrapping_add(a, n) ==
    [hi |-> (a.hi + (a.lo + n) \div Half) % Half, lo |-> (a.lo + n) % Half]
wrapping_sub(a, b) ==
    [hi |-> (a.hi - b.hi - (IF a.lo < b.lo THEN 1 ELSE 0)) % Half,
     lo |-> (a.lo - b.lo) % Half]
AsInt(a) == a.hi * Half + a.lo

\* GameEngine::new and set_frame_rate
target_default == 150
GameEngine_new == [target_frame_time_ms |-> target_default]
set_frame_rate(e, fps) == [e EXCEPT !.target_frame_time_ms = 1000 \div fps]

\* the match on the result of read_input: ButtonA resets in any state
handle_input_resets_always(g, result, checks) ==
    IF ~result.ok THEN g
    ELSE IF result.event.type = "Direction"
         THEN (IF g.state = "Playing" THEN set_direction(g, result.event.direction) ELSE g)
    ELSE IF result.event.type = "ButtonA" THEN reset(g, checks)
    ELSE g

\* the match on the result of read_input
handle_input(g, result, checks) ==
    IF ~result.ok THEN g
    ELSE IF result.event.type = "Direction"
         THEN (IF g.state = "Playing" THEN set_direction(g, result.event.direction) ELSE g)
    ELSE IF result.event.type = "ButtonA"
         THEN (IF g.state = "GameOver" THEN reset(g, checks) ELSE g)
    ELSE g

\* no update on the layout a reset has just made
advance_after_restart(g, checks) ==
    IF g.halt = "none" /\ g.state = "Playing"
           /\ ~(g.snake = InitialSnake(g.width, g.height)
                    /\ g.rng_state # new(g.width, g.height, checks).rng_state)
    THEN update(g, checks)
    ELSE g

\* `if self.game.state == GameState::Playing { self.game.update(); }`
advance(g, checks) ==
    IF g.halt = "none" /\ g.state = "Playing" THEN update(g, checks) ELSE g

\* current_time_ms() - frame_start panics where the build checks the
\* subtraction and the clock has wrapped since frame_start
Underflows(finish, frame_start, checks) == checks /\ LtMillis(finish, frame_start)
frame_time(finish, frame_start) == wrapping_sub(finish, frame_start)

\* the pacing: the delay requested, none when frame_time is not below target
pacing(time, target) ==
    IF LtMillis(time, Millis(target)) THEN <<target - AsInt(time)>> ELSE << >>

\* an error of read_input ends run
left_at_returns(result, updated, render, underflows) ==
    IF ~result.ok THEN "return"
    ELSE IF updated.halt # "none" THEN "update"
    ELSE IF ~render.ok THEN "render"
    ELSE IF underflows THEN "panic"
    ELSE "end"

\* an error of read_input skips the handling of the input alone
left_at_keeps_on(result, updated, render, underflows) ==
    IF updated.halt # "none" THEN "update"
    ELSE IF ~render.ok THEN "render"
    ELSE IF underflows THEN "panic"
    ELSE "end"

\* an error of render_game is ignored
left_at_paces(result, updated, render, underflows) ==
    IF ~result.ok THEN "input"
    ELSE IF updated.halt # "none" THEN "update"
    ELSE IF underflows THEN "panic"
    ELSE "end"

\* Where an iteration leaves the body of the loop: "input" and "render" are
\* the two `continue`, "end" the end of the body, "update" and "panic" a call
\* or a subtraction that does not return.
left_at(result, updated, render, underflows) ==
    IF ~result.ok THEN "input"
    ELSE IF updated.halt # "none" THEN "update"
    ELSE IF ~render.ok THEN "render"
    ELSE IF underflows THEN "panic"
    ELSE "end"

\* the loop goes on to another iteration
Looping(left) == left \in {"none", "input", "render", "end"}

\* One iteration of the loop of run with the engine e, the Game g and the
\* clock at now: where it left the body, the Game after the input handling
\* and at the end, the calls made, frame_time and the delay requested (empty:
\* none), and the clock afterwards.
run_iteration(e, g, now, result, render, elapsed, checks) ==
    LET handled == handle_input(g, result, checks)
        updated == advance(handled, checks)
        finish == wrapping_add(now, elapsed)
        time == frame_time(finish, now)
        delay == pacing(time, e.target_frame_time_ms)
        left == left_at(result, updated, render, Underflows(finish, now, checks))
    IN  [game |-> IF left \in {"input", "return"} THEN g ELSE updated,
         left |-> left,
         frame_start |-> now,
         handled |-> IF left \in {"input", "return"} THEN g ELSE handled,
         update_called |-> left \notin {"input", "return"} /\ handled.state = "Playing",
         render_called |-> left \in {"render", "panic", "end"},
         frame_time |-> IF left = "end" THEN <<time>> ELSE << >>,
         delay |-> IF left = "end" THEN delay ELSE << >>,
         now |-> IF left = "end" /\ delay # << >> THEN wrapping_add(finish, delay[1]) ELSE finish]

\* what passes between the two reads of the clock, around the target
Elapsed(target) == {0, target - 1, target, target + 1}

InitEngine ==
    /\ overflow_checks \in BOOLEAN
    /\ game = new(EngineGrid[1], EngineGrid[2], overflow_checks)
    /\ op = [name |-> "new", width |-> EngineGrid[1], height |-> EngineGrid[2]]
    /\ prev = game
    /\ spawns = 1
    /\ pres \in {GameEngine_new} \cup {set_frame_rate(GameEngine_new, fps) : fps \in FrameRates}
    /\ channel = << >>
    /\ canvas = << >>
    /\ \E now \in {Millis(0)} \cup {BeforeWrap(k) : k \in ClockLeads} :
         hist = [iterations |-> 0, left |-> "none", now |-> now]

Run ==
    /\ hist.iterations < MaxRuns
    /\ Looping(hist.left)
    /\ \E result \in InputResult, render \in RenderResult,
          elapsed \in Elapsed(pres.target_frame_time_ms) :
         /\ \E r \in {run_iteration(pres, game, hist.now, result, render, elapsed, overflow_checks)} :
              /\ game' = r.game
              /\ hist' = [iterations |-> hist.iterations + 1,
                          left |-> r.left,
                          now |-> r.now,
                          frame_start |-> r.frame_start,
                          handled |-> r.handled,
                          update_called |-> r.update_called,
                          render_called |-> r.render_called,
                          frame_time |-> r.frame_time,
                          delay |-> r.delay]
         /\ op' = [name |-> "run", input |-> result, render |-> render, elapsed |-> elapsed]
    /\ prev' = game
    /\ UNCHANGED <<overflow_checks, spawns, pres, channel, canvas>>

SpecEngine == InitEngine /\ [][Run]_vars

-----------------------------------------------------------------------------
(* The frames of the death animation on their own, applied to a snapshot of  *)
(* every length a Vec<Position, 64> can hold.                                *)

\* a snake of len segments laid in rows over a grid MaxWidth wide, head first
SnakeCell(i) ==
    LET y == i \div MaxWidth
    IN  Position(IF y % 2 = 0 THEN i % MaxWidth ELSE (MaxWidth - 1) - (i % MaxWidth), y)
Snapshot(len) == [i \in 1..len |-> SnakeCell(len - i)]

InitFrames ==
    /\ overflow_checks \in BOOLEAN
    /\ \E len \in 0..Capacity :
         /\ op = [name |-> "snapshot", len |-> len]
         /\ pres = [death_animation_frame |-> 0,
                    death_snake |-> Snapshot(len),
                    previous_snake |-> Snapshot(len)]
    /\ game = NoGame
    /\ prev = NoGame
    /\ spawns = 0
    /\ channel = << >> /\ canvas = << >> /\ hist = << >>

\* one frame of the animation that does not end it: the segments drawn and
\* the cache of them
AnimationFrame ==
    /\ ~GeOneF32(progress(pres.death_animation_frame + 1))
    /\ pres' = [pres EXCEPT
                  !.death_animation_frame = @ + 1,
                  !.previous_snake = death_shown(pres.death_snake, pres.death_animation_frame + 1)]
    /\ op' = [name |-> "frame", len |-> op.len, shown_before |-> Len(pres.previous_snake)]
    /\ UNCHANGED <<game, overflow_checks, prev, spawns, channel, canvas, hist>>

SpecFrames == InitFrames /\ [][AnimationFrame]_vars

-----------------------------------------------------------------------------
(* Properties *)

\* one 8-bit step from cell p in direction d
Step8(p, d) ==
    CASE d = "Up" -> [x |-> p.x, y |-> (p.y + 255) % 256]
      [] d = "Down" -> [x |-> p.x, y |-> (p.y + 1) % 256]
      [] d = "Left" -> [x |-> (p.x + 255) % 256, y |-> p.y]
      [] d = "Right" -> [x |-> (p.x + 1) % 256, y |-> p.y]

\* the cell an update() of g steps the head to
Target(g) == Step8(g.snake[1], g.next_direction)

InsideGrid(g, p) == p.x < g.width /\ p.y < g.height
Cells(snake) == {snake[i] : i \in 1..Len(snake)}

Updated == op.name = "update" /\ prev.state = "Playing"

\* Game::new returned the layout (w/2, h/2), (w/2 - 1, h/2), (w/2 - 2, h/2)
\* heading Right, Playing, score 0, food off the snake
NewLayout(w, h) ==
    /\ game.halt = "none"
    /\ game.snake = << [x |-> w \div 2, y |-> h \div 2],
                       [x |-> (w \div 2) - 1, y |-> h \div 2],
                       [x |-> (w \div 2) - 2, y |-> h \div 2] >>
    /\ game.direction = "Right"
    /\ game.state = "Playing"
    /\ game.score = 0
    /\ game.food \notin Cells(game.snake)

\* C1 as stated: for every grid with width >= 3 and height >= 3, Game::new
\* completes without 8-bit underflow and yields the three-segment layout,
\* direction Right, state Playing, score 0 and food off the snake.
C1_NewOnEveryGridFrom3 ==
    (op.name = "new" /\ op.width >= 3 /\ op.height >= 3) => NewLayout(op.width, op.height)

\* C1 amended: the same for every grid with width >= 4 and height >= 3.
C1_NewOnEveryGridFrom4 ==
    (op.name = "new" /\ op.width >= 4 /\ op.height >= 3) => NewLayout(op.width, op.height)

C1_Witness ==
    /\ op.name = "new" /\ op.width = 4 /\ op.height = 3
    /\ game.halt = "none" /\ Len(game.snake) = 3 /\ game.snake[3].x = 0

\* C2: next_direction is never the opposite of direction, and the direction
\* an update() commits is never the opposite of the direction committed
\* before it, whatever set_direction calls came in between.
C2_NoReverse ==
    /\ game.next_direction # opposite(game.direction)
    /\ op.name = "update" => game.direction # opposite(prev.direction)

\* a reversal is asked for after a turn has already been queued
C2_Witness ==
    /\ op.name = "set_direction"
    /\ op.direction = opposite(prev.direction)
    /\ prev.next_direction # prev.direction
    /\ game.next_direction = prev.next_direction

\* C3: an update() in state Playing whose target cell is inside the grid, not
\* a snake cell and not the food cell yields the target followed by the old
\* snake without its last segment, and leaves score, food and state unchanged.
C3_PlainMove ==
    (/\ Updated
     /\ InsideGrid(prev, Target(prev))
     /\ Target(prev) \notin Cells(prev.snake)
     /\ Target(prev) # prev.food)
    => /\ game.halt = "none"
       /\ game.snake = <<Target(prev)>> \o SubSeq(prev.snake, 1, Len(prev.snake) - 1)
       /\ Len(game.snake) = Len(prev.snake)
       /\ game.score = prev.score
       /\ game.food = prev.food
       /\ game.state = prev.state

\* C4: an update() that eats lengthens the snake by exactly 1 (the whole old
\* snake behind the new head), adds exactly 10 to the score and places new
\* food; an update() that moves without eating keeps length and score; the
\* score never decreases except by reset().
C4_GrowthLaw ==
    /\ (/\ Updated
        /\ InsideGrid(prev, Target(prev))
        /\ Target(prev) \notin Cells(prev.snake))
       => /\ game.halt = "none"
          /\ IF Target(prev) = prev.food
             THEN /\ game.snake = <<Target(prev)>> \o prev.snake
                  /\ game.score = prev.score + 10
                  /\ game.food # prev.food
             ELSE /\ Len(game.snake) = Len(prev.snake)
                  /\ game.score = prev.score
    /\ op.name \in {"update", "set_direction"} => game.score >= prev.score

\* C5: an update() in state Playing whose step takes the head to x >= width
\* or y >= height (the wrap from 0 to 255 included) sets GameOver and leaves
\* snake, food, score and RNG state as they were.
C5_WallStops ==
    (Updated /\ ~InsideGrid(prev, Target(prev)))
    => /\ game.halt = "none"
       /\ game.state = "GameOver"
       /\ game.snake = prev.snake
       /\ game.food = prev.food
       /\ game.score = prev.score
       /\ game.rng_state = prev.rng_state

\* the head left the grid through coordinate 0
C5_Witness ==
    /\ Updated
    /\ Target(prev).x = 255 \/ Target(prev).y = 255
    /\ game.state = "GameOver"

\* C6: an update() in state Playing whose target cell is a segment of the
\* snake as it is before the move, the tail included, sets GameOver and
\* leaves snake, food and score unchanged.
C6_SelfStops ==
    (Updated /\ Target(prev) \in Cells(prev.snake))
    => /\ game.halt = "none"
       /\ game.state = "GameOver"
       /\ game.snake = prev.snake
       /\ game.food = prev.food
       /\ game.score = prev.score

\* the head ran into the tail segment
C6_Witness ==
    /\ Updated
    /\ Len(prev.snake) >= 4
    /\ Target(prev) = prev.snake[Len(prev.snake)]
    /\ game.state = "GameOver"

\* C7: in every state new, reset, set_direction and update return in, the
\* food cell is no snake segment.
C7_FoodOffSnake ==
    game.halt = "none" => game.food \notin Cells(game.snake)

\* an update() has eaten and placed new food
C7_Witness ==
    /\ Updated
    /\ game.halt = "none"
    /\ game.score = prev.score + 10
    /\ game.food # prev.food

\* C8: reset() yields the snake, direction Right, next_direction Right, state
\* Playing and score 0 of Game::new on the same dimensions, keeps width and
\* height, and a second reset() yields the same segments, direction, score
\* and state again.
C8_ResetRestores ==
    op.name = "reset" =>
        LET fresh == new(prev.width, prev.height, overflow_checks)
            again == reset(game, overflow_checks)
        IN  /\ game.halt = "none"
            /\ game.snake = fresh.snake
            /\ game.direction = "Right" /\ fresh.direction = "Right"
            /\ game.next_direction = "Right" /\ fresh.next_direction = "Right"
            /\ game.state = "Playing" /\ fresh.state = "Playing"
            /\ game.score = 0 /\ fresh.score = 0
            /\ game.width = prev.width /\ game.height = prev.height
            /\ again.snake = game.snake
            /\ again.direction = game.direction
            /\ again.score = game.score
            /\ again.state = game.state

\* reset() of a finished game with a grown snake, points and a queued turn
C8_Witness ==
    /\ op.name = "reset"
    /\ prev.state = "GameOver"
    /\ prev.score > 0
    /\ Len(prev.snake) > 3
    /\ prev.next_direction # "Right"
    /\ game.halt = "none"

\* C9: in state GameOver update() changes nothing (the queued direction is
\* not committed), and GameOver persists under update and set_direction.
C9_GameOverFrozen ==
    /\ (op.name = "update" /\ prev.state = "GameOver") => game = prev
    /\ (op.name \in {"update", "set_direction"} /\ prev.state = "GameOver")
       => game.state = "GameOver"

\* update() of a finished game that holds a queued turn
C9_Witness ==
    /\ op.name = "update"
    /\ prev.state = "GameOver"
    /\ prev.next_direction # prev.direction
    /\ game.direction = prev.direction

\* C10: set_direction(d) with d the opposite of the committed direction
\* changes nothing; with any other d it changes next_direction to d and
\* nothing else; the next update() commits next_direction before it computes
\* the new head.
C10_SetDirectionFrame ==
    /\ op.name = "set_direction" =>
         IF op.direction = opposite(prev.direction)
         THEN game = prev
         ELSE game = [prev EXCEPT !.next_direction = op.direction]
    /\ Updated =>
         /\ game.direction = prev.next_direction
         /\ game.snake # prev.snake => game.snake[1] = Step8(prev.snake[1], prev.next_direction)

\* an update() moved the head along a turn queued by set_direction
C10_Witness ==
    /\ Updated
    /\ prev.next_direction # prev.direction
    /\ game.direction = prev.next_direction
    /\ game.snake # prev.snake
    /\ game.snake[1] = Step8(prev.snake[1], prev.next_direction)

\* C11: in every state an operation returns in, no two segments of the snake
\* occupy the same cell.
C11_NoOverlap ==
    game.halt = "none" =>
        \A i, j \in 1..Len(game.snake) : i # j => game.snake[i] # game.snake[j]

\* a snake of five or more segments moved with its head beside its own body
C11_Witness ==
    /\ Updated
    /\ game.halt = "none"
    /\ Len(game.snake) >= 5
    /\ game.snake # prev.snake
    /\ \E i \in 4..Len(game.snake), d \in {"Up", "Down", "Left", "Right"} :
         Step8(game.snake[1], d) = game.snake[i]

\* C12: no update() attempts to insert a head into a snake that already
\* holds 64 segments, and the snake never holds more than 64.
C12_CapacityNeverHit ==
    /\ ~(/\ Updated
         /\ Len(prev.snake) = Capacity
         /\ InsideGrid(prev, Target(prev))
         /\ Target(prev) \notin Cells(prev.snake))
    /\ game.halt # "panic"
    /\ Len(game.snake) <= Capacity

\* the last operation called spawn_food
Spawned ==
    /\ game.halt \in {"none", "hang"}
    /\ \/ op.name \in {"new", "reset"}
       \/ Updated /\ Len(game.snake) = Len(prev.snake) + 1

\* the generator state spawn_food started from
SpawnedFrom == IF op.name = "new" THEN Seed ELSE prev.rng_state

\* the loop of spawn_food followed for at most n iterations from generator
\* state s: whether a sample was accepted, which, after how many iterations,
\* and the generator state left
RECURSIVE Tries(_, _, _, _, _, _)
Tries(snake, w, h, s, n, done) ==
    LET r1 == next_random(s)
        r2 == next_random(r1)
        cell == [x |-> RemU32(r1, w), y |-> RemU32(r2, h)]
    IN  IF n = 0 THEN [found |-> FALSE, food |-> cell, tries |-> done, rng |-> s]
        ELSE IF cell \notin Cells(snake)
             THEN [found |-> TRUE, food |-> cell, tries |-> done + 1, rng |-> r2]
             ELSE Tries(snake, w, h, r2, n - 1, done + 1)

RECURSIVE Advance(_, _)
Advance(s, n) == IF n = 0 THEN s ELSE Advance(next_random(s), n - 1)

FreeCells(g) ==
    {c \in [x : 0..(g.width - 1), y : 0..(g.height - 1)] : c \notin Cells(g.snake)}

\* C13: spawn_food (called from new, reset and an eating update) returns
\* whenever a grid cell is free of the snake, and never returns when the
\* snake occupies every cell of the grid.
C13_RespawnTermination ==
    Spawned =>
        LET t == Tries(game.snake, game.width, game.height, SpawnedFrom, MaxDraws, 0)
        IN  IF FreeCells(game) # {}
            THEN game.halt = "none" /\ t.found /\ game.food = t.food
            ELSE game.halt = "hang" /\ ~t.found

\* the first food eaten on the 4 x 1 grid fills the grid
C13_Witness ==
    /\ Updated
    /\ game.width = 4 /\ game.height = 1
    /\ Len(game.snake) = 4
    /\ FreeCells(game) = {}
    /\ game.halt = "hang"

\* C14: reset() does not reseed: the RNG state after reset() is the state
\* before it advanced by the draws of the respawn alone, and the food is the
\* first accepted sample of that continuing sequence (it need not be the food
\* Game::new placed).
C14_ResetKeepsSequence ==
    (op.name = "reset" /\ game.halt = "none") =>
        LET t == Tries(game.snake, game.width, game.height, prev.rng_state, MaxDraws, 0)
        IN  /\ t.found
            /\ game.rng_state = Advance(prev.rng_state, 2 * t.tries)
            /\ game.food = t.food
            /\ game.rng_state # Seed

\* a reset() that placed the food elsewhere than Game::new did
C14_Witness ==
    /\ op.name = "reset"
    /\ game.halt = "none"
    /\ game.snake = new(game.width, game.height, overflow_checks).snake
    /\ game.food # new(game.width, game.height, overflow_checks).food

\* the last iteration of the loop made a tick that rendered
Rendered == op.name = "iterate" /\ hist.ticked.rendered

\* what the display shows of the cell c of the Simulation g
Shown(g, c) ==
    IF c \in Cells(g.snake) THEN GREEN ELSE IF c = g.food THEN RED ELSE BLACK

\* C15: immediately after every rendering tick, the cells of the display that
\* are not black are exactly the cells of the snake, in green, and the cell of
\* the food, in red: no stale cell stays painted and none is missing.
C15_DirtyRectangles ==
    Rendered =>
        /\ Cells(game.snake) \cup {game.food} \subseteq CanvasCells
        /\ \A c \in CanvasCells : canvas.cells[c] = Shown(game, c)

\* a snake that has eaten is rendered in the iteration that resumes a paused game
C15_Witness ==
    /\ Rendered
    /\ Len(game.snake) > 3
    /\ \E i \in 1..Len(hist.steps) :
         /\ hist.steps[i].event.type = "ButtonB"
         /\ hist.steps[i].before.pres.current_state = "Paused"

\* the steps of the last drain made for an event of the given type
StepsOf(type) == {i \in 1..Len(hist.steps) : hist.steps[i].event.type = type}

\* C16: ButtonA processed in any state but WaitingStart resets the Simulation
\* (initial snake, score 0, Playing), makes the presentation WaitingStart and
\* sets the previous-frame cache to the reset snake and food; processed in
\* WaitingStart it changes neither the presentation nor the Simulation.
C16_ButtonA ==
    \A i \in StepsOf("ButtonA") :
        LET before == hist.steps[i].before
            after == hist.steps[i].after
        IN  IF before.pres.current_state = "WaitingStart"
            THEN after = before
            ELSE /\ after.game.snake = InitialSnake(after.game.width, after.game.height)
                 /\ after.game.score = 0
                 /\ after.game.state = "Playing"
                 /\ after.pres.current_state = "WaitingStart"
                 /\ after.pres.previous_snake = after.game.snake
                 /\ after.pres.previous_food = after.game.food

\* ButtonA processed on the final game-over screen
C16_Witness ==
    \E i \in StepsOf("ButtonA") :
        /\ hist.steps[i].before.pres.current_state = "GameOver"
        /\ hist.steps[i].after.pres.current_state = "WaitingStart"

\* C17: ButtonB takes WaitingStart to Playing, Playing to Paused and Paused to
\* Playing, changes nothing in DeathAnimation, BlinkingGameOver and GameOver,
\* and never changes the Simulation.
C17_ButtonB ==
    \A i \in StepsOf("ButtonB") :
        LET before == hist.steps[i].before
            after == hist.steps[i].after
        IN  /\ after.game = before.game
            /\ CASE before.pres.current_state = "WaitingStart" ->
                      after.pres.current_state = "Playing"
                 [] before.pres.current_state = "Playing" ->
                      after.pres.current_state = "Paused"
                 [] before.pres.current_state = "Paused" ->
                      after.pres.current_state = "Playing"
                 [] OTHER -> after = before

\* ButtonB processed while the game-over screen blinks
C17_Witness ==
    \E i \in StepsOf("ButtonB") :
        /\ hist.steps[i].before.pres.current_state = "BlinkingGameOver"
        /\ hist.steps[i].before.pres.blink_frame > 0

\* the tick of the last iteration ended the game
FatalTick ==
    /\ op.name = "iterate"
    /\ hist.ticked.update
    /\ hist.ticked.game.state = "Playing"
    /\ game.halt = "none"
    /\ game.state = "GameOver"

\* C18: in the iteration whose tick ends the game, the tick leaves the
\* presentation in DeathAnimation with the frame counter of the animation at 0
\* and the snapshot equal to the snake before the fatal update, and renders
\* nothing.
C18_FatalTick ==
    FatalTick =>
        /\ hist.ticked.current_state = "DeathAnimation"
        /\ hist.ticked.death_animation_frame = 0
        /\ hist.ticked.death_snake = hist.ticked.game.snake
        /\ ~hist.ticked.rendered
        /\ pres.current_state = "DeathAnimation"
        /\ pres.death_snake = hist.ticked.game.snake

\* a game ended by its tick after the snake had eaten
C18_Witness ==
    /\ FatalTick
    /\ Len(pres.death_snake) > 3

\* C19 as stated: the presentation enters GameOver in the 150th iteration
\* counted from the iteration of the fatal tick, after 60 iterations of death
\* animation and 90 further iterations of blinking.
C19_GameOverAfter150 ==
    pres.current_state = "GameOver" =>
        hist.since_death = death_animation_duration + blink_duration

\* C19 amended: counted from the iteration of the fatal tick, the death
\* animation block runs in iterations 1..60 and the blinking block in
\* iterations 60..149 (the 60th runs both), and the presentation enters
\* GameOver in the 149th.
C19_GameOverAfter149 ==
    /\ pres.current_state = "DeathAnimation" =>
         /\ hist.since_death < death_animation_duration
         /\ pres.death_animation_frame = hist.since_death
         /\ hist.death_runs = hist.since_death
    /\ pres.current_state = "BlinkingGameOver" =>
         /\ hist.since_death < death_animation_duration + blink_duration - 1
         /\ pres.blink_frame = hist.since_death - (death_animation_duration - 1)
         /\ hist.death_runs = death_animation_duration
         /\ hist.blink_runs = pres.blink_frame
    /\ pres.current_state = "GameOver" =>
         /\ hist.since_death = death_animation_duration + blink_duration - 1
         /\ hist.death_runs = death_animation_duration
         /\ hist.blink_runs = blink_duration

\* the final game-over screen reached
C19_Witness ==
    /\ pres.current_state = "GameOver"
    /\ hist.death_runs = death_animation_duration
    /\ hist.blink_runs = blink_duration

\* C20: the blinking shows 24 half-cycles (12 blinks), the first of them
\* visible.
C20_TwelveBlinks ==
    /\ pres.current_state \in {"BlinkingGameOver", "GameOver"} =>
         /\ hist.half_cycles <= 2 * total_blinks
         /\ hist.first_shown = "visible"
    /\ pres.current_state = "GameOver" => hist.half_cycles = 2 * total_blinks

\* the segments drawn are the first of the snapshot, and no more than in the
\* frame before
DrawnFromHead ==
    /\ Len(pres.previous_snake) <= Len(pres.death_snake)
    /\ pres.previous_snake = SubSeq(pres.death_snake, 1, Len(pres.previous_snake))
    /\ Len(pres.previous_snake) <= op.shown_before

\* (60 - f) * L, the exact number of segments times 60
Remaining == (death_animation_duration - pres.death_animation_frame) * Len(pres.death_snake)

\* C21 as stated: at frame f of the death animation the number of segments
\* drawn is (60 - f) * L / 60 rounded to the nearest integer; they are the
\* first segments of the snapshot and never more than in the frame before.
C21_RoundedCount ==
    op.name = "frame" =>
        /\ 2 * Len(pres.previous_snake) * death_animation_duration
               <= 2 * Remaining + death_animation_duration
        /\ 2 * Len(pres.previous_snake) * death_animation_duration
               >= 2 * Remaining - death_animation_duration
        /\ DrawnFromHead

\* C21 amended: the number of segments drawn is (60 - f) * L / 60 with the
\* fraction dropped, or one less than that when the quotient is a whole
\* number the f32 product falls short of; they are the first segments of the
\* snapshot and never more than in the frame before.
C21_TruncatedCount ==
    op.name = "frame" =>
        /\ Len(pres.previous_snake) <= Remaining \div death_animation_duration
        /\ Len(pres.previous_snake) >= Remaining \div death_animation_duration - 1
        /\ Len(pres.previous_snake) < Remaining \div death_animation_duration
               => Remaining % death_animation_duration = 0
        /\ DrawnFromHead

\* a full snake one frame before the end of the animation: 64/60 gives 1
C21_Witness ==
    /\ op.name = "frame"
    /\ Len(pres.death_snake) = Capacity
    /\ pres.death_animation_frame = death_animation_duration - 1
    /\ Len(pres.previous_snake) = 1

\* the last iteration called update()
UpdateCalled == op.name = "iterate" /\ game # hist.ticked.game

\* the frame counter i iterations after it stood WrapLead short of 2^32
FrameCounterAfter(i) ==
    IF i < WrapLead THEN FromTop(WrapLead - i) ELSE ToU32(i - WrapLead)

\* C22: update() is called in an iteration only if the presentation is
\* Playing and the frame counter is a multiple of 10; the frame counter
\* advances by one in every iteration; and two calls of update() are at least
\* 10 iterations apart, also across the wraparound of the frame counter.
C22_TickGate ==
    /\ UpdateCalled =>
         /\ hist.ticked.drained = "Playing"
         /\ RemU32(hist.ticked.frame_counter, 10) = 0
    /\ pres.frame_counter = FrameCounterAfter(hist.iterations)
    /\ (hist.ticked.update /\ hist.gap > 0) => hist.gap >= 10

\* ButtonA is among the events the next iteration will process
ButtonAQueued == \E i \in 1..Len(channel) : channel[i].type = "ButtonA"

\* the presentation states a dead Simulation is shown in, in their order
DeathOrder(state) ==
    CASE state = "DeathAnimation" -> 1
      [] state = "BlinkingGameOver" -> 2
      [] state = "GameOver" -> 3
      [] OTHER -> 0

\* a step of the presentation from a death state without ButtonA: no way back
Onward ==
    (DeathOrder(pres.current_state) > 0 /\ ~ButtonAQueued) =>
        /\ DeathOrder(pres'.current_state) >= DeathOrder(pres.current_state)
        /\ DeathOrder(pres'.current_state) <= DeathOrder(pres.current_state) + 1

\* the Simulation has died, early enough for the iterations followed
Died ==
    /\ game.state = "GameOver"
    /\ pres.current_state # "GameOver"
    /\ hist.iterations + death_animation_duration + blink_duration <= MaxLiveFrames

\* C23: once the Simulation has died the presentation goes through
\* DeathAnimation and BlinkingGameOver to GameOver and never back to Playing,
\* it does reach GameOver unless a ButtonA is processed, and in GameOver it
\* stays whatever direction and ButtonB events arrive, until a ButtonA.
C23_ReachesGameOver ==
    /\ [][Onward]_vars
    /\ Died ~> (pres.current_state = "GameOver" \/ pres.current_state = "WaitingStart")

\* the final game-over screen kept through a direction or ButtonB event
C23_Witness ==
    /\ pres.current_state = "GameOver"
    /\ hist.since_death = death_animation_duration + blink_duration - 1
    /\ Len(hist.steps) = 1
    /\ hist.steps[1].event.type # "ButtonA"
    /\ hist.steps[1].before.pres.current_state = "GameOver"

\* C24: the input handling of the engine calls set_direction only for a
\* Direction in Playing and reset() only for a ButtonA in GameOver; every
\* other input leaves the Simulation as it was.
C24_Routing ==
    (op.name = "run" /\ op.input.ok) =>
        LET event == op.input.event
        IN  /\ hist.handled =
                 (IF event.type = "Direction" /\ prev.state = "Playing"
                  THEN set_direction(prev, event.direction)
                  ELSE IF event.type = "ButtonA" /\ prev.state = "GameOver"
                       THEN reset(prev, overflow_checks)
                       ELSE prev)
            /\ event.type \in {"ButtonB", "None"} => hist.handled = prev
            /\ (event.type = "Direction" /\ prev.state = "GameOver") => hist.handled = prev
            /\ (event.type = "ButtonA" /\ prev.state = "Playing") => hist.handled = prev

\* ButtonA restarted a finished game, after a ButtonA in Playing did nothing
C24_Witness ==
    /\ op.name = "run"
    /\ op.input.ok
    /\ op.input.event.type = "ButtonA"
    /\ prev.state = "GameOver"
    /\ hist.handled.state = "Playing"

\* C25: an iteration whose read_input fails changes nothing in the
\* Simulation, calls neither update() nor render_game, asks for no delay, and
\* leaves the body by `continue`: the loop goes on.
C25_InputError ==
    (op.name = "run" /\ ~op.input.ok) =>
        /\ game = prev
        /\ hist.handled = prev
        /\ ~hist.update_called
        /\ ~hist.render_called
        /\ hist.delay = << >>
        /\ hist.left = "input"
        /\ Looping(hist.left)

\* read_input failed on a game that was being played and had moved
C25_Witness ==
    /\ op.name = "run"
    /\ ~op.input.ok
    /\ prev.state = "Playing"
    /\ hist.iterations > 1
    /\ prev.snake # new(EngineGrid[1], EngineGrid[2], overflow_checks).snake

\* C26 as stated: an input error skips the input handling alone, the
\* iteration still updates a Playing Simulation and renders.
C26_InputErrorSkipsInputOnly ==
    (op.name = "run" /\ ~op.input.ok /\ prev.state = "Playing") =>
        /\ hist.update_called
        /\ hist.render_called

\* C26: an input error skips the whole iteration: a Playing Simulation is not
\* advanced by it and the frame is not rendered.
C26_InputErrorSkipsIteration ==
    (op.name = "run" /\ ~op.input.ok /\ prev.state = "Playing") =>
        /\ ~hist.update_called
        /\ ~hist.render_called
        /\ game.snake = prev.snake
        /\ game.state = "Playing"

\* read_input failed in the first iteration, on the game as constructed
C26_Witness ==
    /\ op.name = "run"
    /\ ~op.input.ok
    /\ prev.state = "Playing"
    /\ hist.iterations = 1

\* C27: an iteration whose render_game fails asks for no delay and leaves the
\* body by `continue`; the Simulation keeps what the input handling and
\* update() of the iteration did.
C27_RenderError ==
    (op.name = "run" /\ op.input.ok /\ ~op.render.ok /\ game.halt = "none") =>
        /\ hist.left = "render"
        /\ Looping(hist.left)
        /\ hist.render_called
        /\ hist.delay = << >>
        /\ hist.frame_time = << >>
        /\ hist.handled = handle_input(prev, op.input, overflow_checks)
        /\ game = advance(hist.handled, overflow_checks)

\* render_game failed after a Direction was taken and update() moved the snake
C27_Witness ==
    /\ op.name = "run"
    /\ op.input.ok
    /\ ~op.render.ok
    /\ op.input.event.type = "Direction"
    /\ hist.handled.next_direction # prev.next_direction
    /\ game.snake # prev.snake
    /\ hist.left = "render"

\* C28: an iteration without input or render error reaches the pacing with
\* frame_time the difference of the two clock reads, and asks for a delay of
\* target - frame_time when frame_time < target and for none otherwise, also
\* when the clock wraps between the reads.
C28_Pacing ==
    (op.name = "run" /\ op.input.ok /\ op.render.ok /\ game.halt = "none") =>
        /\ hist.left = "end"
        /\ hist.frame_time = <<Millis(op.elapsed)>>
        /\ hist.delay = (IF op.elapsed < pres.target_frame_time_ms
                         THEN <<pres.target_frame_time_ms - op.elapsed>>
                         ELSE << >>)
        /\ hist.delay # << >> => hist.delay[1] <= pres.target_frame_time_ms

\* C29: run never stops: every iteration leaves the body of the loop by
\* `continue` or at its end, and another iteration follows.
C29_RunsForever == Looping(hist.left)

\* s is the beginning of t
IsPrefix(s, t) == Len(s) <= Len(t) /\ SubSeq(t, 1, Len(s)) = s

\* C30: the channel never holds more than its 10 events; the events the loop
\* has processed, those in the channel and the one the input task is waiting
\* to send make up, in this order, exactly the events sent: the loop has
\* processed a prefix of them, none lost, none twice, none out of order.
C30_ChannelFifo ==
    /\ Len(channel) <= ChannelCapacity
    /\ Len(hist.pending) <= 1
    /\ IsPrefix(hist.processed, hist.sent)
    /\ Running => hist.processed \o channel \o hist.pending = hist.sent

\* the input task found the channel full, waited, and its event was processed
C30_Witness ==
    /\ hist.waits > 0
    /\ Len(hist.sent) > ChannelCapacity
    /\ hist.pending = << >>
    /\ hist.processed = hist.sent

\* a step that is an iteration of the loop of main, in SpecChannel
DrainStep == hist'.rec.iterations # hist.rec.iterations

\* the drain of that iteration: what it processed, from what, to what
DrainedAll ==
    LET steps == hist'.rec.steps
        n == Len(steps)
    IN  /\ [i \in 1..n |-> steps[i].event] = channel
        /\ \A i \in 1..n :
             steps[i].before = (IF i = 1 THEN [game |-> game, pres |-> pres]
                                ELSE steps[i - 1].after)
        /\ hist'.rec.ticked.game = (IF n = 0 THEN game ELSE steps[n].after.game)
        /\ hist'.rec.ticked.drained =
             (IF n = 0 THEN pres.current_state ELSE steps[n].after.pres.current_state)
        /\ channel' = << >>

\* C31: an iteration of the loop processes every event queued when it starts,
\* in the order sent, each from the state the one before left, and leaves the
\* channel empty; it goes on to the tick and the animations whatever the
\* channel held (frame_counter advances), and an input task waiting on a full
\* channel has room for its event once the iteration is over.
C31_Drain ==
    [][DrainStep =>
         /\ DrainedAll
         /\ pres'.frame_counter = WrappingInc(pres.frame_counter)
         /\ hist.pending # << >> => Len(channel') < ChannelCapacity]_vars

\* a full channel just drained, every event processed, with the input task
\* still holding the event it waited with
C31_Witness ==
    /\ op.name = "iterate"
    /\ Len(hist.rec.steps) = ChannelCapacity
    /\ channel = << >>
    /\ hist.pending # << >>
    /\ hist.rec.steps[1].after.pres.current_state # hist.rec.steps[1].before.pres.current_state

\* the presentation states in which the Simulation stands still
Frozen(state) == state \in {"WaitingStart", "Paused"}

\* C32: an event other than ButtonA processed in WaitingStart or Paused
\* changes nothing in the Simulation and keeps nothing of a direction for
\* later, and an iteration whose drain ends in WaitingStart or Paused does not
\* call update(): the Simulation ends the iteration as the drain left it.
C32_Frozen ==
    op.name = "iterate" =>
        /\ \A i \in 1..Len(hist.steps) :
             (Frozen(hist.steps[i].before.pres.current_state)
                  /\ hist.steps[i].event.type # "ButtonA") =>
                 /\ hist.steps[i].after.game = hist.steps[i].before.game
                 /\ hist.steps[i].event.type = "DirectionChange" =>
                      hist.steps[i].after.pres = hist.steps[i].before.pres
        /\ Frozen(hist.ticked.drained) =>
             /\ ~hist.ticked.update
             /\ game = hist.ticked.game

\* a direction the snake could have taken arrived while the game was paused,
\* after the snake had moved
C32_Witness ==
    /\ op.name = "iterate"
    /\ pres.current_state = "Paused"
    /\ \E i \in 1..Len(hist.steps) :
         /\ hist.steps[i].event.type = "DirectionChange"
         /\ hist.steps[i].before.pres.current_state = "Paused"
         /\ set_direction(hist.steps[i].before.game, hist.steps[i].event.direction)
                # hist.steps[i].before.game
    /\ game.score = 0
    /\ Len(game.snake) = 3
    /\ game.snake # new(GRID_WIDTH, GRID_HEIGHT, overflow_checks).snake

\* a step that is an iteration of the loop of main, in SpecMain
IterationStep == hist'.iterations # hist.iterations

\* the value resume stores as previous food
Sentinel == Position(255, 255)

\* the locals of main as the tick of that iteration finds them
TickFinds ==
    IF hist'.steps = << >> THEN pres ELSE hist'.steps[Len(hist'.steps)].after.pres

\* the cells the rendering erases with the caches it finds: old snake cells
\* the snake has left, and the old food cell when the food is elsewhere
Erased(found, g) ==
    ({found.previous_snake[i] : i \in 1..Len(found.previous_snake)} \ Cells(g.snake))
        \cup (IF found.previous_food # g.food THEN {found.previous_food} ELSE {})

\* C33: ButtonB in Paused resumes with the snake cache emptied and the
\* previous food at (255, 255), a cell of no grid a u8 width or height can
\* give; the rendering tick that finds the caches so erases no cell of the
\* display, and paints every cell of the snake and the cell of the food on
\* the cleared canvas.
C33_Resume ==
    [][IterationStep =>
         /\ \A i \in 1..Len(hist'.steps) :
              (hist'.steps[i].event.type = "ButtonB"
                   /\ hist'.steps[i].before.pres.current_state = "Paused") =>
                  /\ hist'.steps[i].after.pres.current_state = "Playing"
                  /\ hist'.steps[i].after.pres.previous_snake = << >>
                  /\ hist'.steps[i].after.pres.previous_food = Sentinel
         /\ \A w \in 0..(U8 - 1) : ~(Sentinel.x < w) /\ ~(Sentinel.y < w)
         /\ (hist'.ticked.rendered /\ TickFinds.previous_snake = << >>
                 /\ TickFinds.previous_food = Sentinel) =>
                /\ Erased(TickFinds, game') \cap CanvasCells = {}
                /\ Cells(game'.snake) \cup {game'.food} \subseteq CanvasCells
                /\ \A c \in CanvasCells : canvas'.cells[c] = Shown(game', c)
                /\ pres'.previous_snake = game'.snake
                /\ pres'.previous_food = game'.food]_vars

\* the tick rendered in the iteration whose drain ended with the resume, the
\* snake having moved before the pause
C33_Witness ==
    /\ Rendered
    /\ hist.steps # << >>
    /\ LET last == hist.steps[Len(hist.steps)]
       IN  /\ last.event.type = "ButtonB"
           /\ last.before.pres.current_state = "Paused"
           /\ last.after.pres.previous_food = Sentinel
           /\ last.before.pres.previous_snake # << >>
           /\ last.before.game.snake # new(GRID_WIDTH, GRID_HEIGHT, overflow_checks).snake

\* C34: the iteration of the engine in which ButtonA resets a finished game
\* calls update() as well, the state being Playing again: the frame it
\* renders shows the head one cell to the right of the layout reset() made,
\* not that layout.
C34_ResetThenUpdate ==
    (op.name = "run" /\ op.input.ok /\ op.input.event.type = "ButtonA"
         /\ prev.state = "GameOver") =>
        /\ hist.handled = reset(prev, overflow_checks)
        /\ hist.handled.state = "Playing"
        /\ hist.handled.snake = InitialSnake(prev.width, prev.height)
        /\ hist.update_called
        /\ game = update(hist.handled, overflow_checks)
        /\ game.halt = "none" =>
             /\ hist.render_called
             /\ game.snake[1] = Position(hist.handled.snake[1].x + 1, hist.handled.snake[1].y)
             /\ game.snake # hist.handled.snake

\* the frame of the restart was rendered, with the snake already moved
C34_Witness ==
    /\ op.name = "run"
    /\ op.input.ok
    /\ op.input.event.type = "ButtonA"
    /\ prev.state = "GameOver"
    /\ op.render.ok
    /\ hist.render_called
    /\ game.state = "Playing"
    /\ game.snake[1].x = hist.handled.snake[1].x + 1

\* C35: when an iteration of the loop of main has ended, the presentation is
\* in DeathAnimation, BlinkingGameOver or GameOver exactly when the
\* Simulation is in GameOver, and in WaitingStart, Playing or Paused exactly
\* when the Simulation is in Playing.
C35_StatesAgree ==
    Running =>
        /\ pres.current_state \in {"DeathAnimation", "BlinkingGameOver", "GameOver"}
               <=> game.state = "GameOver"
        /\ pres.current_state \in {"WaitingStart", "Playing", "Paused"}
               <=> game.state = "Playing"

\* ButtonA has brought a dead game back to the start screen while the
\* game-over screen was blinking
C35_Witness ==
    /\ op.name = "iterate"
    /\ pres.current_state = "WaitingStart"
    /\ game.state = "Playing"
    /\ \E i \in 1..Len(hist.steps) :
         /\ hist.steps[i].event.type = "ButtonA"
         /\ hist.steps[i].before.pres.current_state = "BlinkingGameOver"
         /\ hist.steps[i].before.game.state = "GameOver"

-----------------------------------------------------------------------------
(* game.rs: what every Game a caller can hold satisfies *)

\* C36: in every Game a call has returned, score = 10 * (length of the snake
\* - 3); up to the capacity of 64 segments that is below 2^16, so the u16
\* score has not wrapped.
C36_ScoreLaw ==
    Running =>
        /\ game.score = 10 * (Len(game.snake) - 3)
        /\ Len(game.snake) <= Capacity
        /\ 10 * (Capacity - 3) < U16

C36_Witness ==
    /\ Running /\ op.name = "update"
    /\ Len(game.snake) = Capacity
    /\ Len(prev.snake) = Capacity - 1
    /\ game.score = 610

\* p and q differ by exactly 1 in exactly one coordinate
Adjacent(p, q) ==
    \/ p.y = q.y /\ (p.x = q.x + 1 \/ q.x = p.x + 1)
    \/ p.x = q.x /\ (p.y = q.y + 1 \/ q.y = p.y + 1)

Connected(snake) ==
    \A i \in 1..(Len(snake) - 1) : Adjacent(snake[i], snake[i + 1])

\* C37 as stated: in every Game a call has returned, each pair of consecutive
\* snake segments differs by exactly 1 in exactly one coordinate.
C37_Connected == Running => Connected(game.snake)

\* C37 amended: the same on every grid with width >= 4.
C37_ConnectedFrom4 == (Running /\ game.width >= 4) => Connected(game.snake)

C37_Witness ==
    /\ Running /\ op.name = "update" /\ game.width >= 4
    /\ Len(game.snake) >= 4
    /\ Len(game.snake) = Len(prev.snake) + 1
    /\ game.snake[1].y # game.snake[Len(game.snake)].y
    /\ game.snake[1].x # game.snake[Len(game.snake)].x

\* C38: on a grid with width >= 4 and height >= 1, in every Game a call has
\* returned the snake has at least 3 segments and every segment and the food
\* have x < width and y < height.
C38_InGrid ==
    (Running /\ game.width >= 4 /\ game.height >= 1) =>
        /\ Len(game.snake) >= 3
        /\ \A i \in 1..Len(game.snake) : InsideGrid(game, game.snake[i])
        /\ InsideGrid(game, game.food)

C38_Witness ==
    /\ Running /\ op.name = "update" /\ game.width >= 4
    /\ prev.state = "Playing" /\ game.state = "GameOver"
    /\ prev.snake[1].x = prev.width - 1
    /\ prev.next_direction = "Right"
    /\ Len(game.snake) >= 4

=============================================================================
